---- MODULE Spec2Model ----
(***************************************************************************)
(* kill.py: kill_process_on_port(port) scans the processes psutil          *)
(* enumerates, prints "Killing process ..." for the first one whose        *)
(* snapshot has an endpoint with that local port, sends it SIGTERM and     *)
(* returns; otherwise it prints "No process found ...".                    *)
(*                                                                         *)
(* The operating system's process and socket table is part of the state:   *)
(* it is read lazily (psutil.process_iter lists the pids once, then        *)
(* inspects one process per iteration) and other system activity changes   *)
(* it between the tool's system calls.  The display name of a process      *)
(* takes no part in any decision of the code and is left out of the        *)
(* output lines.                                                           *)
(***************************************************************************)
EXTENDS Integers, Sequences, FiniteSets

VARIABLES
    table,          \* the OS process/socket table: pid -> process
    port,           \* the argument of kill_process_on_port
    pc,             \* "start", "scan", "signal", "done", "crashed"
    pidList,        \* the pids process_iter listed, in iteration order
    idx,            \* position of the for loop of line 7 in pidList
    info,           \* proc.info of the matched process (NoInfo before a match)
    out,            \* the lines printed to standard output
    signals,        \* the signals os.kill delivered
    killResult,     \* "none", "ok", "ESRCH", "EPERM": how os.kill ended
    holdersStable,  \* history: the set of port holders never changed
    failedAt        \* history: last position whose inspection failed, or 0

vars == <<table, port, pc, pidList, idx, info, out, signals, killResult,
          holdersStable, failedAt>>

\* Number of pid slots of the process table.
MaxPid == 2

Pids == 1 .. MaxPid

\* kill.py is run with 8000 (line 18); server.py serves on 8001 (line 19).
Ports == {8000, 8001}

\* psutil's pconn entries: laddr.port, raddr.port (0: no remote address), status.
Listen8000 == [lport |-> 8000, rport |-> 0, status |-> "LISTEN"]
Estab8001to8000 == [lport |-> 8001, rport |-> 8000, status |-> "ESTABLISHED"]
Estab8000to8001 == [lport |-> 8000, rport |-> 8001, status |-> "ESTABLISHED"]

\* The socket lists a process can have.
ConnLists ==
    { <<>>, <<Listen8000>>, <<Estab8001to8000>>,
      <<Estab8001to8000, Estab8000to8001>> }

\* A pid with no process.
Dead == [alive |-> FALSE, readable |-> FALSE, signalable |-> FALSE, conns |-> <<>>]

\* readable: the caller may read the process's socket list;
\* signalable: the caller may signal the process.
LiveProcs ==
    [alive : {TRUE}, readable : BOOLEAN, signalable : BOOLEAN, conns : ConnLists]

Procs == LiveProcs \cup {Dead}

NoInfo == [pid |-> 0, denied |-> FALSE, connections |-> <<>>]

KillingLine(pid, p) == [kind |-> "Killing", pid |-> pid, port |-> p]
NoProcessLine(p) == [kind |-> "NoProcess", pid |-> 0, port |-> p]

RECURSIVE Ascending(_)
\* process_iter yields the listed pids in ascending order.
Ascending(S) ==
    IF S = {} THEN <<>>
    ELSE LET m == CHOOSE x \in S : \A y \in S : x <= y
         IN  <<m>> \o Ascending(S \ {m})

\* proc.info for the attrs of line 7: an AccessDenied while reading the
\* connections leaves None in the dict (denied), which line 8 reads.
Info(p) ==
    [pid |-> p,
     denied |-> ~table[p].readable,
     connections |-> IF table[p].readable THEN table[p].conns ELSE <<>>]

\* Line 9: None and the empty list are both falsy.
Truthy(i) == ~i.denied /\ Len(i.connections) > 0

\* Observation: the socket list has an endpoint whose local port is p.
HasLocalPort(conns, p) == \E k \in DOMAIN conns : conns[k].lport = p

\* Observation: the processes that hold p and whose socket list can be read.
PortHolders(t, p) ==
    {q \in Pids : t[q].alive /\ t[q].readable /\ HasLocalPort(t[q].conns, p)}

MatchesFirstOnly(connections, p) ==
    Len(connections) > 0 /\ connections[1].lport = p

MatchesRemote(connections, p) ==
    \E k \in 1 .. Len(connections) : connections[k].rport = p

MatchesEitherPort(connections, p) ==
    \E k \in 1 .. Len(connections) :
        connections[k].lport = p \/ connections[k].rport = p

\* Lines 10-11: some conn of the list has laddr.port equal to the port.
Matches(connections, p) ==
    \E k \in 1 .. Len(connections) : connections[k].lport = p

TypeOK ==
    /\ table \in [Pids -> Procs]
    /\ port \in Ports
    /\ pc \in {"start", "scan", "signal", "done", "crashed"}
    /\ idx \in 1 .. MaxPid + 1
    /\ killResult \in {"none", "ok", "ESRCH", "EPERM"}
    /\ holdersStable \in BOOLEAN
    /\ failedAt \in 0 .. MaxPid
    /\ Len(out) <= 1 /\ Len(signals) <= 1

Init ==
    /\ table \in [Pids -> Procs]
    /\ port \in Ports
    /\ pc = "start"
    /\ pidList = <<>>
    /\ idx = 1
    /\ info = NoInfo
    /\ out = <<>>
    /\ signals = <<>>
    /\ killResult = "none"
    /\ holdersStable = TRUE
    /\ failedAt = 0

\* Line 7, first step of the generator: psutil lists the pids once.
Enumerate ==
    /\ pc = "start"
    /\ pidList' = Ascending({q \in Pids : table[q].alive})
    /\ pc' = "scan"
    /\ UNCHANGED <<table, port, idx, info, out, signals, killResult,
                   holdersStable, failedAt>>

RestartIdx(i) == 1

\* The for loop of line 7 moves on to the next listed pid.
NextIdx(i) == i + 1

InspectAbortOnFailure ==
    /\ pc = "scan"
    /\ idx <= Len(pidList)
    /\ LET p == pidList[idx]
       IN  IF ~table[p].alive \/ Info(p).denied
           THEN /\ pc' = "crashed"
                /\ failedAt' = idx
                /\ UNCHANGED <<idx, info, out>>
           ELSE IF Truthy(Info(p)) /\ Matches(Info(p).connections, port)
           THEN /\ info' = Info(p)
                /\ out' = Append(out, KillingLine(Info(p).pid, port))
                /\ pc' = "signal"
                /\ UNCHANGED <<idx, failedAt>>
           ELSE /\ idx' = NextIdx(idx)
                /\ UNCHANGED <<pc, info, out, failedAt>>
    /\ UNCHANGED <<table, port, pidList, signals, killResult, holdersStable>>

\* Lines 7-12 for one listed pid: a process that is gone is skipped by
\* process_iter; otherwise its info is read and tested, and on a match the
\* line is printed and the signal call is next.
Inspect ==
    /\ pc = "scan"
    /\ idx <= Len(pidList)
    /\ LET p == pidList[idx]
       IN  IF ~table[p].alive
           THEN /\ idx' = NextIdx(idx)
                /\ failedAt' = idx
                /\ UNCHANGED <<pc, info, out>>
           ELSE IF Truthy(Info(p)) /\ Matches(Info(p).connections, port)
           THEN /\ info' = Info(p)
                /\ out' = Append(out, KillingLine(Info(p).pid, port))
                /\ pc' = "signal"
                /\ UNCHANGED <<idx, failedAt>>
           ELSE /\ idx' = NextIdx(idx)
                /\ failedAt' = IF Info(p).denied THEN idx ELSE failedAt
                /\ UNCHANGED <<pc, info, out>>
    /\ UNCHANGED <<table, port, pidList, signals, killResult, holdersStable>>

SilentExhausted ==
    /\ pc = "scan"
    /\ idx > Len(pidList)
    /\ pc' = "done"
    /\ UNCHANGED <<table, port, pidList, idx, info, out, signals, killResult,
                   holdersStable, failedAt>>

\* Line 15: the loop ended without a match.
ScanExhausted ==
    /\ pc = "scan"
    /\ idx > Len(pidList)
    /\ out' = Append(out, NoProcessLine(port))
    /\ pc' = "done"
    /\ UNCHANGED <<table, port, pidList, idx, info, signals, killResult,
                   holdersStable, failedAt>>

CurrentHolder ==
    IF PortHolders(table, port) = {} THEN info.pid
    ELSE CHOOSE q \in PortHolders(table, port) :
             \A r \in PortHolders(table, port) : q <= r

\* Line 13: the pid handed to os.kill is the one of the snapshot.
SignalTarget == info.pid

\* os.kill(pid, SIGTERM): no such process, not permitted, or delivered.
OsKill(pid) ==
    IF ~table[pid].alive THEN "ESRCH"
    ELSE IF ~table[pid].signalable THEN "EPERM"
    ELSE "ok"

KillThenContinue ==
    /\ pc = "signal"
    /\ killResult' = OsKill(SignalTarget)
    /\ IF OsKill(SignalTarget) = "ok"
       THEN /\ signals' = Append(signals,
                   [pid |-> SignalTarget,
                    held |-> HasLocalPort(table[SignalTarget].conns, port)])
            /\ pc' = "scan"
            /\ idx' = NextIdx(idx)
       ELSE /\ pc' = "crashed"
            /\ UNCHANGED <<signals, idx>>
    /\ UNCHANGED <<table, port, pidList, info, out, holdersStable, failedAt>>

\* Lines 13-14: os.kill, then return.  An OSError of os.kill
\* (ProcessLookupError, PermissionError) is caught nowhere: it leaves the
\* function and ends the program with a traceback.
Kill ==
    /\ pc = "signal"
    /\ killResult' = OsKill(SignalTarget)
    /\ IF OsKill(SignalTarget) = "ok"
       THEN /\ signals' = Append(signals,
                   [pid |-> SignalTarget,
                    held |-> HasLocalPort(table[SignalTarget].conns, port)])
            /\ pc' = "done"
       ELSE /\ pc' = "crashed"
            /\ UNCHANGED signals
    /\ UNCHANGED <<table, port, pidList, idx, info, out, holdersStable, failedAt>>

\* The steps of the tool.
Tool == Enumerate \/ Inspect \/ ScanExhausted \/ Kill

\* Other system activity, between the tool's system calls.
Running == pc \in {"scan", "signal"}

EnvChange(t) ==
    /\ table' = t
    /\ holdersStable' = (holdersStable /\ PortHolders(t, port) = PortHolders(table, port))
    /\ UNCHANGED <<port, pc, pidList, idx, info, out, signals, killResult, failedAt>>

\* A process exits; its sockets go with it.
ProcExit ==
    /\ Running
    /\ \E q \in Pids :
          /\ table[q].alive
          /\ EnvChange([table EXCEPT ![q] = Dead])

\* A free pid is given to a new process.
ProcSpawn ==
    /\ Running
    /\ \E q \in Pids, r \in LiveProcs :
          /\ ~table[q].alive
          /\ EnvChange([table EXCEPT ![q] = r])

\* A process binds, connects or closes sockets.
SocketChange ==
    /\ Running
    /\ \E q \in Pids, c \in ConnLists :
          /\ table[q].alive
          /\ c # table[q].conns
          /\ EnvChange([table EXCEPT ![q].conns = c])

Next == Enumerate \/ Inspect \/ ScanExhausted \/ Kill
          \/ ProcExit \/ ProcSpawn \/ SocketChange

Spec == Init /\ [][Next]_vars

\* The tool is a running sequential program: its next step is taken.
FairSpec == Spec /\ WF_vars(Tool)

Terminal == pc \in {"done", "crashed"}

(***************************************************************************)
(* Observations used by the properties.                                    *)
(***************************************************************************)

\* Position of a listed pid in the enumeration.
Position(q) == CHOOSE i \in 1 .. Len(pidList) : pidList[i] = q

\* The pids the delivered signals were addressed to.
SentPids == [k \in 1 .. Len(signals) |-> signals[k].pid]

Sent(q) == \E k \in 1 .. Len(signals) : signals[k].pid = q

Listed(q) == \E i \in 1 .. Len(pidList) : pidList[i] = q

\* The port holder that comes first in the enumeration.
FirstHolder ==
    CHOOSE q \in PortHolders(table, port) :
        \A r \in PortHolders(table, port) : Position(q) <= Position(r)

\* The invocation ended with the "Killing process" line for q and returned.
TerminatedFor(q) == pc = "done" /\ out = <<KillingLine(q, port)>>

\* C1 as stated: when the set of port holders is the same throughout the
\* invocation and is a single readable process, the invocation ends with the
\* Killing line for that pid and exactly one signal, sent to that pid.
C1_UniqueHolderTerminated ==
    (Terminal /\ holdersStable /\ Cardinality(PortHolders(table, port)) = 1)
        => \A q \in PortHolders(table, port) :
               TerminatedFor(q) /\ SentPids = <<q>>

\* C1 amended: the same, for a unique holder the caller may signal.
C1_UniqueSignalableHolderTerminated ==
    (Terminal /\ holdersStable /\ Cardinality(PortHolders(table, port)) = 1)
        => \A q \in PortHolders(table, port) :
               table[q].signalable => (TerminatedFor(q) /\ SentPids = <<q>>)

C1_Witness ==
    /\ Terminal /\ holdersStable
    /\ Len(pidList) >= 2
    /\ \E q \in Pids :
          /\ PortHolders(table, port) = {q}
          /\ Position(q) = 2
          /\ table[q].conns = <<Estab8001to8000, Estab8000to8001>>
          /\ port = 8000
          /\ TerminatedFor(q) /\ SentPids = <<q>>

\* C2: when no readable process holds the port at any time of the
\* invocation, it ends with the "No process found" line alone, os.kill is
\* never called and no signal is sent.
C2_NoHolderNotFound ==
    (Terminal /\ holdersStable /\ PortHolders(table, port) = {})
        => /\ pc = "done"
           /\ out = <<NoProcessLine(port)>>
           /\ signals = <<>>
           /\ killResult = "none"

C2_Witness ==
    /\ Terminal /\ holdersStable /\ PortHolders(table, port) = {}
    /\ Len(pidList) >= 2
    /\ \E q \in Pids : Listed(q) /\ table[q].alive /\ table[q].readable
                       /\ MatchesRemote(table[q].conns, port)
    /\ \E q \in Pids : Listed(q) /\ table[q].alive /\ ~table[q].readable
                       /\ HasLocalPort(table[q].conns, port)
    /\ out = <<NoProcessLine(port)>>

\* C3 as stated: with several holders, exactly one signal is sent, to the
\* first holder of the enumeration, and the loop never moves past it.
C3_FirstOfSeveralSignaled ==
    (Terminal /\ holdersStable /\ Cardinality(PortHolders(table, port)) >= 2)
        => /\ SentPids = <<FirstHolder>>
           /\ idx = Position(FirstHolder)
           /\ failedAt < idx

\* C3 amended: os.kill is called once, for the first holder; one signal is
\* sent when the caller may signal it and none otherwise; the loop never
\* moves past the first holder either way.
C3_FirstOfSeveralOnlyTarget ==
    (Terminal /\ holdersStable /\ Cardinality(PortHolders(table, port)) >= 2)
        => /\ info.pid = FirstHolder
           /\ SentPids = IF table[FirstHolder].signalable
                         THEN <<FirstHolder>> ELSE <<>>
           /\ killResult = IF table[FirstHolder].signalable THEN "ok" ELSE "EPERM"
           /\ out = <<KillingLine(FirstHolder, port)>>
           /\ idx = Position(FirstHolder)
           /\ failedAt < idx

C3_Witness ==
    /\ Terminal /\ holdersStable
    /\ Cardinality(PortHolders(table, port)) >= 2
    /\ SentPids = <<FirstHolder>>
    /\ idx = 1
    /\ \A q \in PortHolders(table, port) : table[q].signalable

\* Some listed process after the last failed inspection holds the port.
HolderAfterFailure ==
    /\ failedAt > 0
    /\ \E q \in PortHolders(table, port) : Listed(q) /\ Position(q) > failedAt

\* C4 as stated: after a failed inspection (process gone, or socket list
\* denied) a later holder is still matched and signaled, and the invocation
\* ends with the Killing line for it.
C4_SkipThenLaterHolderTerminated ==
    (Terminal /\ holdersStable /\ HolderAfterFailure)
        => /\ TerminatedFor(FirstHolder)
           /\ SentPids = <<FirstHolder>>
           /\ Position(FirstHolder) > failedAt

\* C4 amended: the later holder is still matched (the Killing line names it
\* and os.kill is called for it); it is signaled and the invocation returns
\* when the caller may signal it.
C4_SkipThenLaterHolderMatched ==
    (Terminal /\ holdersStable /\ HolderAfterFailure)
        => /\ info.pid = FirstHolder
           /\ out = <<KillingLine(FirstHolder, port)>>
           /\ Position(FirstHolder) > failedAt
           /\ killResult # "none"
           /\ table[FirstHolder].signalable
                  => (pc = "done" /\ SentPids = <<FirstHolder>>)

C4_Witness ==
    /\ Terminal /\ holdersStable /\ HolderAfterFailure
    /\ ~table[pidList[failedAt]].alive
    /\ TerminatedFor(FirstHolder)
    /\ SentPids = <<FirstHolder>>

\* C5 as stated: a failed os.kill (process gone, or not permitted) is
\* handled: the invocation does not end in an unhandled fault.
C5_SignalFailureHandled ==
    killResult \in {"ESRCH", "EPERM"} => pc # "crashed"

\* C6: at most one outcome line is ever written, and every ended invocation
\* has written exactly one: the Killing line or the No-process line.
C6_ExactlyOneOutcomeLine ==
    /\ Len(out) <= 1
    /\ Terminal => /\ Len(out) = 1
                   /\ out[1].kind \in {"Killing", "NoProcess"}
                   /\ out[1].port = port

C6_Witness ==
    /\ pc = "crashed"
    /\ failedAt > 0
    /\ Len(out) = 1 /\ out[1].kind = "Killing"

\* C7 as stated: in an ended invocation the Killing line for a pid is there
\* only if a signal was sent to that pid.
C7_KillingLineOnlyIfSignalSent ==
    Terminal => \A k \in 1 .. Len(out) :
                    out[k].kind = "Killing" => Sent(out[k].pid)

\* C8: every signal is addressed to the pid of the snapshot taken at the
\* match, the process enumerated at the loop position, whatever the table
\* holds when the signal is sent.
C8_SignalAddressedToSnapshotPid ==
    \A k \in 1 .. Len(signals) :
        /\ signals[k].pid = info.pid
        /\ idx <= Len(pidList) /\ pidList[idx] = info.pid
        /\ out = <<KillingLine(signals[k].pid, port)>>

\* The stale delivery: a signal reached a process that did not hold the
\* port when it was sent.
C8_Witness ==
    \E k \in 1 .. Len(signals) :
        /\ ~signals[k].held
        /\ ~HasLocalPort(table[signals[k].pid].conns, port)
        /\ HasLocalPort(info.connections, port)

\* C9: a signal is sent only to a process whose snapshot was readable and
\* has an endpoint with the port as local port; while the holders do not
\* change, no process outside them is signaled.
C9_SignaledOnlyIfLocalPortInSnapshot ==
    \A k \in 1 .. Len(signals) :
        /\ ~info.denied
        /\ \E e \in 1 .. Len(info.connections) : info.connections[e].lport = port
        /\ holdersStable => signals[k].pid \in PortHolders(table, port)

C9_Witness ==
    /\ holdersStable /\ Len(signals) = 1
    /\ \E e \in 1 .. Len(info.connections) :
          /\ info.connections[e].lport = port
          /\ info.connections[e].status = "ESTABLISHED"
    /\ \E q \in Pids :
          /\ Listed(q) /\ Position(q) < idx
          /\ table[q].alive /\ table[q].readable
          /\ MatchesRemote(table[q].conns, port)
          /\ ~HasLocalPort(table[q].conns, port)
          /\ ~Sent(q)

\* C10: the invocation ends; the loop position only moves forward, one
\* listed pid at a time, over a list that never changes; and it ends either
\* at the matched pid or past the last listed pid.
C10_ScanTerminates ==
    /\ <>Terminal
    /\ [][/\ idx' \in {idx, idx + 1}
          /\ pc # "start" => pidList' = pidList
          /\ Terminal => UNCHANGED vars]_vars
    /\ [](Terminal =>
            \/ info.pid # 0 /\ idx <= Len(pidList) /\ pidList[idx] = info.pid
            \/ info = NoInfo /\ idx = Len(pidList) + 1)

C10_Witness ==
    /\ pc = "done"
    /\ info = NoInfo
    /\ Len(pidList) >= 2
    /\ idx = Len(pidList) + 1

====
